---- MODULE Spec2Model ----
\* Universal Trust Model (utm/trust_meter.py) and the trust-gated Axelrod
\* players built on it (strategies/utm_tft.py, utm_wsls.py, utm_tft_wsls.py).
\*
\* Numbers.  The program computes in IEEE doubles.  Here a trust value or a
\* reward is an integer count of 1/Unit, and a rate (alpha_pos, alpha_neg,
\* delta, severity) an integer count of 1/Cent.  Products are formed exactly
\* and the stored trust is rounded to the nearest multiple of 1/Unit, ties to
\* even, as the double addition on line 189 rounds to the nearest double.  The
\* grid is coarser than a double's, the rounding rule is the same.
EXTENDS Integers, Sequences, FiniteSets, TLC

Unit == 1000
Cent == 100

\* ---------------------------------------------------------------- bounds
MaxCalls == 4
MaxPlayerCalls == 8

\* ------------------------------------------------- default hyper-parameters
ALPHA_POS == 5
ALPHA_NEG == 50
DELTA == 30

\* ------------------------------------------------------------ reward table
Moves == {"C", "D"}

REWARD_TABLE_ZeroSum ==
    [p \in Moves \X Moves |->
        IF p = <<"C", "C">> THEN Unit
        ELSE IF p = <<"D", "C">> THEN Unit \div 2
        ELSE IF p = <<"D", "D">> THEN 0
        ELSE -Unit]

REWARD_TABLE_Transposed ==
    [p \in Moves \X Moves |->
        IF p = <<"C", "C">> THEN Unit
        ELSE IF p = <<"C", "D">> THEN Unit \div 2
        ELSE IF p = <<"D", "D">> THEN -(Unit \div 5)
        ELSE -Unit]

REWARD_TABLE ==
    [p \in Moves \X Moves |->
        IF p = <<"C", "C">> THEN Unit
        ELSE IF p = <<"D", "C">> THEN Unit \div 2
        ELSE IF p = <<"D", "D">> THEN -(Unit \div 5)
        ELSE -Unit]

NoError == "none"
MoveError == "ValueError: move must be 'C' or 'D'"
ZeroError == "ValueError: reward must be non-zero"

payoff_to_signed_reward_lenient(my_move, opp_move) ==
    IF <<my_move, opp_move>> \in DOMAIN REWARD_TABLE
    THEN [raised |-> NoError, value |-> REWARD_TABLE[<<my_move, opp_move>>]]
    ELSE [raised |-> NoError, value |-> -Unit]

\* lines 96-105
payoff_to_signed_reward(my_move, opp_move) ==
    IF <<my_move, opp_move>> \in DOMAIN REWARD_TABLE
    THEN [raised |-> NoError, value |-> REWARD_TABLE[<<my_move, opp_move>>]]
    ELSE [raised |-> MoveError, value |-> 0]

\* ------------------------------------------------------------- arithmetic
\* x * g / k^3 rounded to the nearest integer, ties to even, for 0 <= x,
\* 0 < k, formed without an intermediate product that leaves TLC's 32-bit integers.
MulDivRound(x, g, k) ==
    LET kk == k * k
        xh == x \div kk
        xl == x % kk
        a == xh * g
        q1 == a \div k
        r1 == a % k
        rest == r1 * kk + xl * g
        den == kk * k
        fl == rest \div den
        rem == rest % den
        base == q1 + fl
    IN  IF 2 * rem > den \/ (2 * rem = den /\ base % 2 = 1)
        THEN base + 1 ELSE base

Min(a, b) == IF a < b THEN a ELSE b
Max(a, b) == IF a > b THEN a ELSE b

ClampNoFloor(x) == Min(Unit, x)

Clamp(x) == Max(0, Min(Unit, x))

\* ------------------------------------------------------------------ state
VARIABLES
    player,       \* class of the instance: "TrustMeter" or one of the players
    theta,        \* TrustMeter.theta, in 1/Unit
    alpha_pos,    \* TrustMeter.alpha_pos, in 1/Cent
    alpha_neg,    \* TrustMeter.alpha_neg, in 1/Cent
    delta,        \* TrustMeter.delta, in 1/Cent
    trust,        \* TrustMeter._trust, in 1/Unit
    betrayals,    \* TrustMeter._betrayals
    threshold,    \* player.threshold, in 1/Unit
    promote_at,   \* UTMTFT_WSLS.promote_at, in 1/Unit
    inner,        \* class of player.inner
    rounds,       \* len(player.history)
    my_last,      \* player.history[-1]
    opp_last,     \* opponent.history[-1]
    pending,      \* the move strategy() returned, not yet in the history
    calls,        \* number of method calls made on the instance
    last,         \* the most recent method call: arguments, locals, outcome
    seen,         \* the (own, opponent) outcomes a player's strategy() has
                  \* observed since construction or reset, oldest first
    meters,       \* two players side by side: the TrustMeter objects built,
                  \* by address
    instances,    \* two players side by side: each player's fields
    running,      \* dashboard: st.session_state.running
    future,       \* dashboard: st.session_state.future, the index in
                  \* `futures` of the Future held, 0 for None
    progress_q,   \* dashboard: the messages in st.session_state.progress_q,
                  \* oldest first
    futures,      \* dashboard: the state of every Future that
                  \* EXECUTOR.submit returned, in submission order
    puts,         \* dashboard: number of progress messages the running task put
    bar,          \* dashboard: n and total of the task's current tqdm bar
    done_flag,    \* dashboard: local done_flag of the page script
    last_pct,     \* dashboard: local last_pct of the page script
    progress_bar, \* dashboard: percentage the st.progress element shows,
                  \* NoBar while the page has no such element
    run_area,     \* dashboard: what the page shows about the run's outcome
    ui,           \* dashboard: position of the page script
    run_clicked,  \* dashboard: cfg["run_clicked"] of the script run
    interactions  \* dashboard: number of widget interactions so far

vars == <<player, theta, alpha_pos, alpha_neg, delta, trust, betrayals,
          threshold, promote_at, inner, rounds, my_last, opp_last, pending,
          calls, last, seen, meters, instances, running, future, progress_q,
          futures, puts, bar, done_flag, last_pct, progress_bar, run_area, ui,
          run_clicked, interactions>>

meter_params == <<theta, alpha_pos, alpha_neg, delta>>
player_params == <<player, threshold, promote_at>>
match == <<rounds, my_last, opp_last, pending>>
twin == <<meters, instances>>
session == <<running, future, progress_q>>
worker == <<futures, puts, bar>>
script == <<done_flag, last_pct, progress_bar, run_area, ui, run_clicked>>
dash == <<session, worker, script, interactions>>

None == "-"

Call(op) ==
    [op |-> op, raised |-> NoError, reward |-> 0, severity |-> 0,
     my |-> None, opp |-> None, trust0 |-> trust, n0 |-> betrayals,
     observed |-> FALSE, alpha |-> 0, factor |-> 0, inner0 |-> inner,
     engine |-> None, proposed |-> None, decision |-> None, value |-> None]

\* -------------------------------------------------------- TrustMeter.value
\* The property value: returns _trust and writes nothing.
TrustMeter_value ==
    /\ player = "TrustMeter"
    /\ calls < MaxCalls
    /\ calls' = calls + 1
    /\ last' = [Call("value") EXCEPT !.value = trust]
    /\ UNCHANGED <<meter_params, player_params, twin, dash, trust, betrayals, inner,
                   match, seen>>

\* ------------------------------------------------------ TrustMeter.observe
SelectAlphaSwapped(reward, t) == IF reward > t THEN alpha_neg ELSE alpha_pos

\* line 181
SelectAlpha(reward, t) == IF reward > t THEN alpha_pos ELSE alpha_neg

BumpWhenTrusted(reward, t, n) == IF reward < t /\ t > 0 THEN n + 1 ELSE n

BumpAtOrBelow(reward, t, n) == IF reward <= t THEN n + 1 ELSE n

BumpAlways(reward, t, n) == n + 1

\* lines 184-185
BumpBetrayals(reward, t, n) == IF reward < t THEN n + 1 ELSE n

FactorFlat(severity, n) == severity * (Cent + delta)

\* line 187, in 1/Cent^2
Factor(severity, n) == severity * (Cent + n * delta)

DeltaTReversed(alpha, factor, reward, t) ==
    MulDivRound(alpha * factor, t - reward, Cent)

\* line 188, in 1/Unit
DeltaT(alpha, factor, reward, t) == MulDivRound(alpha * factor, reward - t, Cent)

NewTrustFrozen(t, delta_t) == t

\* line 189
NewTrust(t, delta_t) == Clamp(t + delta_t)

UpdateOfFactorFirst(t, n0, reward, severity) ==
    LET alpha == SelectAlpha(reward, t)
        n == BumpBetrayals(reward, t, n0)
        factor == Factor(severity, n0)
        delta_t == DeltaT(alpha, factor, reward, t)
    IN  [trust |-> NewTrust(t, delta_t), betrayals |-> n,
         alpha |-> alpha, factor |-> factor]

UpdateOfPlainGain(t, n0, reward, severity) ==
    LET alpha == SelectAlpha(reward, t)
        n == BumpBetrayals(reward, t, n0)
        factor == IF reward > t THEN severity * Cent ELSE Factor(severity, n)
        delta_t == DeltaT(alpha, factor, reward, t)
    IN  [trust |-> NewTrust(t, delta_t), betrayals |-> n,
         alpha |-> alpha, factor |-> factor]

\* The body of observe after the zero check: the new (_trust, _betrayals)
\* and the locals alpha and factor.
UpdateOf(t, n0, reward, severity) ==
    LET alpha == SelectAlpha(reward, t)
        n == BumpBetrayals(reward, t, n0)
        factor == Factor(severity, n)
        delta_t == DeltaT(alpha, factor, reward, t)
    IN  [trust |-> NewTrust(t, delta_t), betrayals |-> n,
         alpha |-> alpha, factor |-> factor]

Update(reward, severity) == UpdateOf(trust, betrayals, reward, severity)

ObserveAccepts(reward) == FALSE

\* line 177
ObserveRaises(reward) == reward = 0

\* observe(reward, severity) as called from `op`, with `c` the record of the
\* call so far.
observe(c, reward, severity) ==
    IF ObserveRaises(reward)
    THEN /\ last' = [c EXCEPT !.reward = reward, !.severity = severity,
                              !.raised = ZeroError]
         /\ UNCHANGED <<trust, betrayals>>
    ELSE LET u == Update(reward, severity) IN
         /\ trust' = u.trust
         /\ betrayals' = u.betrayals
         /\ last' = [c EXCEPT !.reward = reward, !.severity = severity,
                              !.observed = TRUE,
                              !.alpha = u.alpha, !.factor = u.factor]

TrustMeter_observe(reward, severity) ==
    /\ player = "TrustMeter"
    /\ calls < MaxCalls
    /\ calls' = calls + 1
    /\ observe(Call("observe"), reward, severity)
    /\ UNCHANGED <<meter_params, player_params, twin, dash, inner, match, seen>>

\* ----------------------------------------------- TrustMeter.observe_moves
TrustMeter_observe_moves(my_move, opp_move, severity) ==
    LET c == [Call("observe_moves") EXCEPT !.my = my_move, !.opp = opp_move]
        r == payoff_to_signed_reward(my_move, opp_move)
    IN  /\ player = "TrustMeter"
        /\ calls < MaxCalls
        /\ calls' = calls + 1
        /\ IF r.raised # NoError
           THEN /\ last' = [c EXCEPT !.raised = r.raised, !.severity = severity]
                /\ UNCHANGED <<trust, betrayals>>
           ELSE observe(c, r.value, severity)
        /\ UNCHANGED <<meter_params, player_params, twin, dash, inner, match, seen>>

\* ------------------------------------------------------- TrustMeter.reset
ResetKeepsTrust == trust

ResetTrust == theta
ResetBetrayals == 0

TrustMeter_reset ==
    /\ player = "TrustMeter"
    /\ calls < MaxCalls
    /\ calls' = calls + 1
    /\ trust' = ResetTrust
    /\ betrayals' = ResetBetrayals
    /\ last' = Call("reset")
    /\ UNCHANGED <<meter_params, player_params, twin, dash, inner, match, seen>>

\* -------------------------------------------------------------- players
DefaultSeverity == Cent

\* self.inner.strategy(opponent): the moves the inner engine can propose.
\* Both engines open with C; afterwards the proposal is the engine's own.
InnerStrategy(cls, n) == IF n = 0 THEN {"C"} ELSE Moves

ObservePreviousTwice ==
    LET quiet == [raised |-> NoError, observed |-> FALSE, reward |-> 0,
                  trust |-> trust, betrayals |-> betrayals,
                  alpha |-> 0, factor |-> 0]
        r == payoff_to_signed_reward(my_last, opp_last)
        u == Update(r.value, DefaultSeverity)
        v == UpdateOf(u.trust, u.betrayals, r.value, DefaultSeverity)
    IN  IF rounds = 0 THEN quiet
        ELSE IF r.raised # NoError THEN [quiet EXCEPT !.raised = r.raised]
        ELSE [raised |-> NoError, observed |-> TRUE, reward |-> r.value,
              trust |-> v.trust, betrayals |-> v.betrayals,
              alpha |-> v.alpha, factor |-> v.factor]

ObservePreviousUnguarded ==
    LET quiet == [raised |-> NoError, observed |-> FALSE, reward |-> 0,
                  trust |-> trust, betrayals |-> betrayals,
                  alpha |-> 0, factor |-> 0]
        r == payoff_to_signed_reward(my_last, opp_last)
        u == Update(r.value, DefaultSeverity)
    IN  IF r.raised # NoError THEN [quiet EXCEPT !.raised = r.raised]
        ELSE [raised |-> NoError, observed |-> TRUE, reward |-> r.value,
              trust |-> u.trust, betrayals |-> u.betrayals,
              alpha |-> u.alpha, factor |-> u.factor]

\* `if self.history:` and the observation of the previous round: the error
\* raised, if any, and the meter after it.
ObservePrevious ==
    LET quiet == [raised |-> NoError, observed |-> FALSE, reward |-> 0,
                  trust |-> trust, betrayals |-> betrayals,
                  alpha |-> 0, factor |-> 0]
        r == payoff_to_signed_reward(my_last, opp_last)
        u == Update(r.value, DefaultSeverity)
    IN  IF rounds = 0 THEN quiet
        ELSE IF r.raised # NoError THEN [quiet EXCEPT !.raised = r.raised]
        ELSE IF ObserveRaises(r.value)
             THEN [quiet EXCEPT !.raised = ZeroError, !.reward = r.value]
        ELSE [raised |-> NoError, observed |-> TRUE, reward |-> r.value,
              trust |-> u.trust, betrayals |-> u.betrayals,
              alpha |-> u.alpha, factor |-> u.factor]

GateWhileCautious(current_trust, proposed) ==
    IF current_trust < threshold /\ inner' # "WinStayLoseShift"
    THEN "D" ELSE proposed

GateOff(current_trust, proposed) == proposed

GateAtOrBelow(current_trust, proposed) ==
    IF current_trust <= threshold THEN "D" ELSE proposed

\* `Action.D if self.trust.value < self.threshold else proposed`
Gate(current_trust, proposed) ==
    IF current_trust < threshold THEN "D" ELSE proposed

PromoteNever(current_trust, cls) == cls

PromoteTwoWay(current_trust, cls) ==
    IF current_trust > promote_at THEN "WinStayLoseShift" ELSE "TitForTat"

\* utm_tft_wsls.py lines 61-63: the inner engine after the promotion test
Promote(current_trust, cls) ==
    IF current_trust > promote_at /\ cls # "WinStayLoseShift"
    THEN "WinStayLoseShift" ELSE cls

\* One call of strategy(): observe the previous round, pick the engine
\* `engine`, take its proposal and gate it.
strategy(o, engine, proposed) ==
    LET c == [Call("strategy") EXCEPT
                 !.my = my_last, !.opp = opp_last, !.reward = o.reward,
                 !.severity = IF o.observed THEN DefaultSeverity ELSE 0,
                 !.observed = o.observed,
                 !.alpha = o.alpha, !.factor = o.factor, !.raised = o.raised]
    IN  /\ pending = None
        /\ calls < MaxPlayerCalls
        /\ calls' = calls + 1
        /\ trust' = o.trust
        /\ betrayals' = o.betrayals
        /\ seen' = IF o.observed THEN Append(seen, <<my_last, opp_last>>)
                   ELSE seen
        /\ IF o.raised # NoError
           THEN /\ last' = c
                /\ UNCHANGED <<inner, pending>>
           ELSE /\ proposed \in InnerStrategy(engine, rounds)
                /\ inner' = engine
                /\ pending' = Gate(o.trust, proposed)
                /\ last' = [c EXCEPT !.engine = engine,
                                     !.proposed = proposed,
                                     !.decision = Gate(o.trust, proposed)]
        /\ UNCHANGED <<meter_params, player_params, twin, dash,
                       rounds, my_last, opp_last>>

UTMTFT_strategy(proposed) ==
    /\ player = "UTMTFT"
    /\ strategy(ObservePrevious, inner, proposed)

UTMWSLS_strategy(proposed) ==
    /\ player = "UTMWSLS"
    /\ strategy(ObservePrevious, inner, proposed)

UTMTFT_WSLS_strategy(proposed) ==
    /\ player = "UTMTFT_WSLS"
    /\ strategy(ObservePrevious, Promote(ObservePrevious.trust, inner), proposed)

reset_keeps_meter(engine) ==
    /\ pending = None
    /\ calls < MaxPlayerCalls
    /\ calls' = calls + 1
    /\ inner' = engine
    /\ rounds' = 0
    /\ my_last' = None
    /\ opp_last' = None
    /\ seen' = <<>>
    /\ last' = Call("reset")
    /\ UNCHANGED <<meter_params, player_params, twin, dash,
                   pending, trust, betrayals>>

\* reset(): super().reset() empties the history, then the meter and the
\* inner engine are reset.
reset(engine) ==
    /\ pending = None
    /\ calls < MaxPlayerCalls
    /\ calls' = calls + 1
    /\ trust' = ResetTrust
    /\ betrayals' = ResetBetrayals
    /\ inner' = engine
    /\ rounds' = 0
    /\ my_last' = None
    /\ opp_last' = None
    /\ seen' = <<>>
    /\ last' = Call("reset")
    /\ UNCHANGED <<meter_params, player_params, twin, dash, pending>>

UTMTFT_reset ==
    /\ player = "UTMTFT"
    /\ reset(inner)

UTMWSLS_reset ==
    /\ player = "UTMWSLS"
    /\ reset(inner)

UTMTFT_WSLS_reset_inner ==
    /\ player = "UTMTFT_WSLS"
    /\ reset(inner)

UTMTFT_WSLS_reset ==
    /\ player = "UTMTFT_WSLS"
    /\ reset("TitForTat")

\* The match records the round: the move strategy() returned and the
\* opponent's move join the two histories.
OppMoves == Moves \cup {"X"}

update_history(opp_move) ==
    /\ pending # None
    /\ rounds' = rounds + 1
    /\ my_last' = pending
    /\ opp_last' = opp_move
    /\ pending' = None
    /\ UNCHANGED <<meter_params, player_params, twin, dash, trust, betrayals, inner,
                   calls, last, seen>>

\* The same under noise (axl.Tournament(noise=...), axl.Noise): the move that
\* enters the player's history is the flip of the move strategy() returned.
Flip(move) == IF move = "C" THEN "D" ELSE "C"

noisy_update_history(opp_move) ==
    /\ pending # None
    /\ rounds' = rounds + 1
    /\ my_last' = Flip(pending)
    /\ opp_last' = opp_move
    /\ pending' = None
    /\ UNCHANGED <<meter_params, player_params, twin, dash, trust, betrayals, inner,
                   calls, last, seen>>

\* ---------------------------------------------------------------- dashboard
\* The tournament page (src/dash/00_IPD_Tournament.py) and its background
\* worker (src/dash/background.py).  The page script runs top to bottom on
\* every widget interaction; st.session_state survives from run to run.  The
\* worker is the single thread of EXECUTOR.
MaxInteractions == 2
MaxPuts == 3

\* The totals of the tqdm bars a tournament creates.
Totals == {1, 2}

\* Messages of progress_q: the pair (completed, total) put by the patched
\* tqdm, and the pair ("done", "done") put by background_task.
Msg(completed, total) == <<"progress", completed, total>>
Sentinel == <<"done", 0, 0>>

\* concurrent.futures.Future as the page uses it: done() and cancel().
FutureDone(f) == f \in {"returned", "raised", "cancelled"}
Future_cancel(f) == IF f = "pending" THEN "cancelled" ELSE f

\* `pct = int(completed / total * 100)`; for the totals reached here the
\* double computation gives the floor of the exact quotient.
Pct(completed, total) == (completed * 100) \div total

ShowsAny(pct, shown) == pct # shown

\* `if pct > last_pct:`
Shows(pct, shown) == pct > shown

LoopUntilSentinel(flag, done) == ~flag

\* `while not done_flag and not state.future.done():`
LoopContinues(flag, done) == ~flag /\ ~done

\* The page shows no st.progress element.
NoBar == -1

\* init_state() on the first load of the page, which starts the first run of
\* the script with nothing clicked.
PageLoad ==
    /\ running = FALSE
    /\ future = 0
    /\ progress_q = <<>>
    /\ futures = <<>>
    /\ puts = 0
    /\ bar = [n |-> 0, total |-> 0]
    /\ done_flag = FALSE
    /\ last_pct = 0
    /\ progress_bar = NoBar
    /\ run_area = None
    /\ ui = "top"
    /\ run_clicked = FALSE
    /\ interactions = 0

\* ----------------------------------------------------------- construction
\* (reward, severity) arguments of observe, and (my_move, opp_move) arguments
\* of observe_moves, that the callers of a bare TrustMeter are given.
Rewards == {-Unit, -(Unit \div 5), 0, Unit \div 2, Unit, 2 * Unit}
Observations ==
    (Rewards \X {DefaultSeverity})
        \cup {<<-Unit, Cent \div 2>>, <<-(Unit \div 5), 2 * Cent>>,
              <<Unit, 2 * Cent>>, <<0, 2 * Cent>>}
MovePairs == (Moves \X Moves) \cup {<<"X", "C">>, <<"C", "X">>}

MeterConfigs ==
    {[theta |-> Unit \div 2, alpha_pos |-> ALPHA_POS, alpha_neg |-> ALPHA_NEG,
      delta |-> DELTA],
     [theta |-> 450, alpha_pos |-> 5, alpha_neg |-> 50, delta |-> 60],
     [theta |-> Unit, alpha_pos |-> 50, alpha_neg |-> 10, delta |-> 0],
     [theta |-> 0, alpha_pos |-> 100, alpha_neg |-> 20, delta |-> 100],
     [theta |-> 300, alpha_pos |-> 0, alpha_neg |-> 0, delta |-> 30],
     [theta |-> 995, alpha_pos |-> 5, alpha_neg |-> 50, delta |-> 60]}

PlayerConfigs ==
    {[player |-> "UTMTFT", theta |-> 450, alpha_pos |-> 5, alpha_neg |-> 50,
      delta |-> 60, threshold |-> 450, promote_at |-> 0],
     [player |-> "UTMTFT", theta |-> 600, alpha_pos |-> 20, alpha_neg |-> 10,
      delta |-> 30, threshold |-> 450, promote_at |-> 0],
     [player |-> "UTMWSLS", theta |-> 450, alpha_pos |-> 5, alpha_neg |-> 50,
      delta |-> 55, threshold |-> 450, promote_at |-> 0],
     [player |-> "UTMWSLS", theta |-> 300, alpha_pos |-> 50, alpha_neg |-> 10,
      delta |-> 30, threshold |-> 450, promote_at |-> 0],
     [player |-> "UTMTFT_WSLS", theta |-> 450, alpha_pos |-> 5,
      alpha_neg |-> 50, delta |-> 55, threshold |-> 450, promote_at |-> 550],
     [player |-> "UTMTFT_WSLS", theta |-> 500, alpha_pos |-> 20,
      alpha_neg |-> 10, delta |-> 30, threshold |-> 450, promote_at |-> 550],
     [player |-> "UTMTFT_WSLS", theta |-> 500, alpha_pos |-> 10,
      alpha_neg |-> 50, delta |-> 55, threshold |-> 450, promote_at |-> 550]}

FirstEngine(cls) ==
    IF cls = "UTMWSLS" THEN "WinStayLoseShift" ELSE "TitForTat"

InitMeter ==
    /\ \E m \in MeterConfigs :
          /\ theta = m.theta
          /\ alpha_pos = m.alpha_pos
          /\ alpha_neg = m.alpha_neg
          /\ delta = m.delta
          /\ trust = m.theta
    /\ player = "TrustMeter"
    /\ threshold = 0
    /\ promote_at = 0
    /\ inner = None

InitPlayer ==
    \E p \in PlayerConfigs :
       /\ player = p.player
       /\ theta = p.theta
       /\ alpha_pos = p.alpha_pos
       /\ alpha_neg = p.alpha_neg
       /\ delta = p.delta
       /\ trust = p.theta
       /\ threshold = p.threshold
       /\ promote_at = p.promote_at
       /\ inner = FirstEngine(p.player)

Init ==
    /\ InitMeter \/ InitPlayer
    /\ PageLoad
    /\ betrayals = 0
    /\ rounds = 0
    /\ my_last = None
    /\ opp_last = None
    /\ pending = None
    /\ calls = 0
    /\ seen = <<>>
    /\ meters = <<>>
    /\ instances = <<>>
    /\ last = [op |-> "init", raised |-> NoError, reward |-> 0,
               severity |-> 0, my |-> None, opp |-> None, trust0 |-> trust,
               n0 |-> 0, observed |-> FALSE, alpha |-> 0, factor |-> 0,
               inner0 |-> inner, engine |-> None,
               proposed |-> None, decision |-> None, value |-> None]

Next ==
    \/ \E o \in Observations : TrustMeter_observe(o[1], o[2])
    \/ \E m \in MovePairs :
          TrustMeter_observe_moves(m[1], m[2], DefaultSeverity)
    \/ TrustMeter_reset
    \/ TrustMeter_value
    \/ \E proposed \in Moves : UTMTFT_strategy(proposed)
    \/ \E proposed \in Moves : UTMWSLS_strategy(proposed)
    \/ \E proposed \in Moves : UTMTFT_WSLS_strategy(proposed)
    \/ UTMTFT_reset
    \/ UTMWSLS_reset
    \/ UTMTFT_WSLS_reset
    \/ \E opp_move \in OppMoves : update_history(opp_move)

Spec == Init /\ [][Next]_vars

\* A UTMTFT built with its default parameters (theta 0.45, alpha_pos 0.05,
\* alpha_neg 0.5, delta 0.6, threshold 0.45), in matches of valid moves played
\* with noise.
DefaultUTMTFT ==
    /\ player = "UTMTFT"
    /\ <<theta, alpha_pos, alpha_neg, delta>> = <<450, 5, 50, 60>>
    /\ threshold = 450

InitNoise == Init /\ DefaultUTMTFT

NextNoise ==
    \/ \E proposed \in Moves : UTMTFT_strategy(proposed)
    \/ UTMTFT_reset
    \/ \E opp_move \in Moves : update_history(opp_move)
    \/ \E opp_move \in Moves : noisy_update_history(opp_move)

SpecNoise == InitNoise /\ [][NextNoise]_vars

\* ------------------------------------------------- two players side by side
\* Two players of one class, built with the same arguments, each in a match
\* of its own; the rounds of the two matches interleave.
MaxRounds == 3

SharedMeter(k) == 1

\* `self.trust = TrustMeter(theta, alpha_pos, alpha_neg, delta)` in __init__:
\* the k-th player built holds a TrustMeter object of its own.
NewMeter(k) == k

\* One round of player i's match: strategy() observes the previous round on
\* the player's meter, promotes and gates as above, and the match records the
\* move returned with the opponent's move.
Instance_round(i, proposed, opp_move) ==
    LET p == instances[i]
        m == meters[p.meter]
        k == Len(p.history)
        r == payoff_to_signed_reward(p.history[k][1], p.history[k][2])
        u == IF k = 0 THEN m
             ELSE UpdateOf(m.trust, m.betrayals, r.value, DefaultSeverity)
        engine == IF player = "UTMTFT_WSLS" THEN Promote(u.trust, p.inner)
                  ELSE p.inner
    IN  /\ k < MaxRounds
        /\ proposed \in InnerStrategy(engine, k)
        /\ meters' = [meters EXCEPT
                         ![p.meter] = [trust |-> u.trust,
                                       betrayals |-> u.betrayals]]
        /\ instances' = [instances EXCEPT
                            ![i] = [meter |-> p.meter,
                                    inner |-> engine,
                                    history |-> Append(p.history,
                                        <<Gate(u.trust, proposed), opp_move>>),
                                    proposals |-> Append(p.proposals,
                                                         proposed)]]
        /\ UNCHANGED <<meter_params, player_params, trust, betrayals, inner,
                       match, calls, last, seen, dash>>

InitTwo ==
    /\ InitPlayer
    /\ PageLoad
    /\ betrayals = 0
    /\ rounds = 0
    /\ my_last = None
    /\ opp_last = None
    /\ pending = None
    /\ calls = 0
    /\ seen = <<>>
    /\ last = [op |-> "init", raised |-> NoError, reward |-> 0,
               severity |-> 0, my |-> None, opp |-> None, trust0 |-> trust,
               n0 |-> 0, observed |-> FALSE, alpha |-> 0, factor |-> 0,
               inner0 |-> inner, engine |-> None,
               proposed |-> None, decision |-> None, value |-> None]
    /\ meters = [a \in {NewMeter(1), NewMeter(2)} |->
                    [trust |-> theta, betrayals |-> 0]]
    /\ instances = [i \in {1, 2} |->
                       [meter |-> NewMeter(i), inner |-> FirstEngine(player),
                        history |-> <<>>, proposals |-> <<>>]]

NextTwo ==
    \E i \in {1, 2}, proposed \in Moves, opp_move \in Moves :
        Instance_round(i, proposed, opp_move)

SpecTwo == InitTwo /\ [][NextTwo]_vars

\* ------------------------------------------------------ dashboard: actions
core == <<meter_params, player_params, twin, trust, betrayals, inner, match,
          calls, last, seen>>

\* A widget interaction: the run of the script in flight, if any, stops and
\* the script starts again from the top, with cfg["run_clicked"] telling
\* whether the interaction was a click on Run.  The elements the stopped run
\* drew stay on the page until the new run draws over them; its locals are
\* gone.
Interact(clicked) ==
    /\ interactions < MaxInteractions
    /\ ui # "top"
    /\ interactions' = interactions + 1
    /\ ui' = "top"
    /\ run_clicked' = clicked
    /\ done_flag' = FALSE
    /\ last_pct' = 0
    /\ UNCHANGED <<core, session, worker, progress_bar, run_area>>

\* Lines 40-50: a click on Run cancels the Future of a run in flight and
\* shows the summary of the new run.
Script_top ==
    /\ ui = "top"
    /\ IF run_clicked
       THEN /\ futures' =
                  IF running /\ future # 0 /\ ~FutureDone(futures[future])
                  THEN [futures EXCEPT ![future] = Future_cancel(@)]
                  ELSE futures
            /\ run_area' = "info"
            /\ ui' = "submit"
       ELSE /\ run_area' = None
            /\ ui' = "block"
            /\ UNCHANGED futures
    /\ UNCHANGED <<core, session, puts, bar, done_flag, last_pct,
                   progress_bar, run_clicked, interactions>>

\* Lines 52-71: a new queue, running = True, and the task submitted.
Script_submit ==
    /\ ui = "submit"
    /\ progress_q' = <<>>
    /\ running' = TRUE
    /\ futures' = Append(futures, "pending")
    /\ future' = Len(futures) + 1
    /\ ui' = "block"
    /\ UNCHANGED <<core, puts, bar, done_flag, last_pct, progress_bar,
                   run_area, run_clicked, interactions>>

\* Lines 73-78: the polling block is entered when a run is in flight.
Script_block ==
    /\ ui = "block"
    /\ IF running /\ future # 0
       THEN /\ progress_bar' = 0
            /\ last_pct' = 0
            /\ done_flag' = FALSE
            /\ ui' = "while"
       ELSE /\ ui' = "idle"
            /\ UNCHANGED <<progress_bar, last_pct, done_flag>>
    /\ UNCHANGED <<core, session, worker, run_area, run_clicked,
                   interactions>>

\* Line 79: the test of the polling loop.
Script_while ==
    /\ ui = "while"
    /\ ui' = IF LoopContinues(done_flag, FutureDone(futures[future]))
             THEN "get" ELSE "after"
    /\ UNCHANGED <<core, session, worker, done_flag, last_pct, progress_bar,
                   run_area, run_clicked, interactions>>

\* Lines 80-92: one pass of the loop body; get() returns the oldest message
\* or raises Empty after its timeout.
Script_get ==
    /\ ui = "get"
    /\ ui' = "while"
    /\ IF progress_q = <<>>
       THEN UNCHANGED <<progress_q, done_flag, last_pct, progress_bar>>
       ELSE LET msg == Head(progress_q)
                pct == Pct(msg[2], msg[3])
            IN  /\ progress_q' = Tail(progress_q)
                /\ IF msg = Sentinel
                   THEN /\ progress_bar' = 100
                        /\ done_flag' = TRUE
                        /\ UNCHANGED last_pct
                   ELSE IF Shows(pct, last_pct)
                   THEN /\ last_pct' = pct
                        /\ progress_bar' = pct
                        /\ UNCHANGED done_flag
                   ELSE UNCHANGED <<done_flag, last_pct, progress_bar>>
    /\ UNCHANGED <<core, running, future, worker, run_area, run_clicked,
                   interactions>>

\* Lines 93-94: the bar goes to 100 when the Future is done.
Script_after ==
    /\ ui = "after"
    /\ ui' = "result"
    /\ progress_bar' = IF FutureDone(futures[future]) THEN 100
                       ELSE progress_bar
    /\ UNCHANGED <<core, session, worker, done_flag, last_pct, run_area,
                   run_clicked, interactions>>

\* Lines 95-115: the bar is removed, the outcome of the Future is shown
\* (result() waits for a Future that is not done), and the session state is
\* cleared.
Script_result ==
    /\ ui = "result"
    /\ FutureDone(futures[future])
    /\ progress_bar' = NoBar
    /\ run_area' = CASE futures[future] = "cancelled" -> "warning"
                     [] futures[future] = "raised" -> "error"
                     [] OTHER -> "results"
    /\ running' = FALSE
    /\ future' = 0
    /\ ui' = "idle"
    /\ UNCHANGED <<core, progress_q, worker, done_flag, last_pct,
                   run_clicked, interactions>>

\* The task the worker thread is in, if any.
Busy == \E i \in DOMAIN futures : futures[i] \in {"running", "finishing"}
Task == CHOOSE i \in DOMAIN futures : futures[i] \in {"running", "finishing"}

\* Queue.put by the task of Future i: the queue it was given is the one the
\* session holds only while no later run has replaced it.
put(msg, i) ==
    progress_q' = IF i = Len(futures) THEN Append(progress_q, msg)
                  ELSE progress_q

\* EXECUTOR has one worker thread: it takes the oldest pending Future and
\* enters background_task (lines 75-77).
Worker_start ==
    /\ ~Busy
    /\ \E i \in DOMAIN futures :
          /\ futures[i] = "pending"
          /\ \A j \in 1..(i - 1) : futures[j] # "pending"
          /\ futures' = [futures EXCEPT ![i] = "running"]
    /\ puts' = 0
    /\ bar' = [n |-> 0, total |-> 0]
    /\ UNCHANGED <<core, session, script, interactions>>

\* The tournament creates a tqdm bar: (0, total) is put.
streamlit_tqdm(total) ==
    /\ Busy
    /\ futures[Task] = "running"
    /\ puts < MaxPuts
    /\ puts' = puts + 1
    /\ bar' = [n |-> 0, total |-> total]
    /\ put(Msg(0, total), Task)
    /\ UNCHANGED <<core, running, future, futures, script, interactions>>

\* The tournament advances its bar by one: (bar.n, bar.total) is put.
tqdm_update ==
    /\ Busy
    /\ futures[Task] = "running"
    /\ puts < MaxPuts
    /\ bar.n < bar.total
    /\ puts' = puts + 1
    /\ bar' = [bar EXCEPT !.n = @ + 1]
    /\ put(Msg(bar.n + 1, bar.total), Task)
    /\ UNCHANGED <<core, running, future, futures, script, interactions>>

\* Line 131: the tournament is over and the sentinel is put.
background_task_done ==
    /\ Busy
    /\ futures[Task] = "running"
    /\ futures' = [futures EXCEPT ![Task] = "finishing"]
    /\ put(Sentinel, Task)
    /\ UNCHANGED <<core, running, future, puts, bar, script, interactions>>

\* Lines 132-133: the task returns its result; its bars are gone.
background_task_return ==
    /\ Busy
    /\ futures[Task] = "finishing"
    /\ futures' = [futures EXCEPT ![Task] = "returned"]
    /\ puts' = 0
    /\ bar' = [n |-> 0, total |-> 0]
    /\ UNCHANGED <<core, session, script, interactions>>

\* Any statement of background_task raises: the Future holds the exception.
background_task_raise ==
    /\ Busy
    /\ futures' = [futures EXCEPT ![Task] = "raised"]
    /\ puts' = 0
    /\ bar' = [n |-> 0, total |-> 0]
    /\ UNCHANGED <<core, session, script, interactions>>

InitDash == Init /\ DefaultUTMTFT

NextDash ==
    \/ \E clicked \in BOOLEAN : Interact(clicked)
    \/ Script_top
    \/ Script_submit
    \/ Script_block
    \/ Script_while
    \/ Script_get
    \/ Script_after
    \/ Script_result
    \/ Worker_start
    \/ \E total \in Totals : streamlit_tqdm(total)
    \/ tqdm_update
    \/ background_task_done
    \/ background_task_return
    \/ background_task_raise

SpecDash == InitDash /\ [][NextDash]_vars

\* The script thread and the worker thread both keep running: every pass of
\* the polling loop ends within the 0.1 s timeout of get(), and the executor
\* runs the tasks submitted to it.
Script ==
    \/ Script_top
    \/ Script_submit
    \/ Script_block
    \/ Script_while
    \/ Script_get
    \/ Script_after
    \/ Script_result

Worker ==
    \/ Worker_start
    \/ \E total \in Totals : streamlit_tqdm(total)
    \/ tqdm_update
    \/ background_task_done
    \/ background_task_return
    \/ background_task_raise

SpecDashFair == SpecDash /\ WF_vars(Script) /\ WF_vars(Worker)

\* =================================================================== claims
\* A step that is a method call on the instance (not the match recording a
\* round); last' then describes that call.
IsCall == calls' # calls

\* The call computed a reward from a pair of moves.
Mapped(c) == c.op = "observe_moves" \/ (c.op = "strategy" /\ c.my # None)
ValidPair(c) == c.my \in Moves /\ c.opp \in Moves

\* C1 -- Boundedness: trust lies in [0.0, 1.0] in every reachable state:
\* initially, after every observe (any reward, any betrayal count) and after
\* every reset.
C1_Bounded == 0 <= trust /\ trust <= Unit

\* An observe whose sum fell below 0.0 and was clamped to 0.0.
C1_Witness ==
    /\ last.op = "observe"
    /\ last.observed
    /\ last.trust0 > 0
    /\ trust = 0
    /\ betrayals >= 2

\* C2 -- Zero-reward rejection: observe with reward = 0 raises ValueError
\* "reward must be non-zero" in every state and leaves trust and the betrayal
\* count as they were.
C2_ZeroRejected ==
    (last.op = "observe" /\ last.reward = 0) =>
        /\ last.raised = ZeroError
        /\ ~last.observed
        /\ trust = last.trust0
        /\ betrayals = last.n0

\* observe(0) on a meter that has already moved away from its baseline.
C2_Witness ==
    /\ last.op = "observe"
    /\ last.reward = 0
    /\ last.raised = ZeroError
    /\ betrayals >= 1
    /\ trust # theta

\* C3 -- Monotonic betrayal counter: the count is 0 after construction and
\* after reset; a call that observes a reward raises it by exactly 1 when the
\* reward is below the trust held before the call and leaves it unchanged
\* otherwise; no other step changes it, so it never decreases between resets.
C3_BetrayalCounter ==
    /\ [](last.op \in {"init", "reset"} => betrayals = 0)
    /\ [][IF IsCall /\ last'.op = "reset"
          THEN betrayals' = 0
          ELSE IF IsCall /\ last'.observed
          THEN betrayals' = betrayals + (IF last'.reward < trust THEN 1 ELSE 0)
          ELSE betrayals' = betrayals]_vars

\* A positive surprise observed after two betrayals: the count stays at 2.
C3_Witness ==
    /\ last.observed
    /\ last.reward > last.trust0
    /\ last.n0 = 2
    /\ betrayals = 2

\* C4 (as stated) -- Directionality: with positive learning rates and the
\* default severity, an observe with reward > trust leaves trust strictly
\* greater, and one with reward < trust and trust > 0 strictly smaller.
Directional(c) ==
    /\ c.observed
    /\ c.severity = DefaultSeverity
    /\ alpha_pos > 0
    /\ alpha_neg > 0

C5_Reset ==
    /\ [](last.op = "reset" => (trust = theta /\ betrayals = 0))
    /\ [][(IsCall /\ last.op = "reset" /\ last'.op = "reset") =>
              (trust' = trust /\ betrayals' = betrayals)]_vars

\* A reset() that undid a lowered trust and a raised betrayal count.
C5_Witness ==
    /\ last.op = "reset"
    /\ last.trust0 < theta
    /\ last.n0 >= 2
    /\ trust = theta
    /\ betrayals = 0

\* Two calls in a row that both observed a negative surprise, with the same
\* reward and the same severity: last is the first, last' the second.
TwoBetrayals ==
    /\ IsCall
    /\ last.observed
    /\ last'.observed
    /\ last.reward < last.trust0
    /\ last'.reward < last'.trust0
    /\ last'.reward = last.reward
    /\ last'.severity = last.severity

\* C6 (as stated) -- Escalation: of two successive negative surprises with the
\* same reward and severity, the second lowers trust by strictly more than
\* the first.  Stated for the meters the claim favours most: a positive
\* alpha_neg, a positive delta and a positive severity.
C6_Original ==
    [][(TwoBetrayals /\ alpha_neg > 0 /\ delta > 0 /\ last.severity > 0) =>
          (last'.trust0 - trust') > (last.trust0 - trust)]_vars

\* C6 (amended) -- of two successive negative surprises with the same reward
\* and a positive severity, the second is amplified by a strictly larger
\* factor severity * (1 + n * delta) when delta > 0 (by an equal factor when
\* delta = 0), and its learning rate is the same alpha_neg; the drop of
\* trust itself need not be larger, since the gap to the reward has shrunk
\* and the result is clamped at 0.0.
C6_Escalation ==
    [][TwoBetrayals =>
          /\ last'.alpha = last.alpha
          /\ (delta > 0 /\ last.severity > 0) => last'.factor > last.factor
          /\ delta = 0 => last'.factor = last.factor]_vars

\* TrustMeter(theta=0.5) after observe(-0.2), observe(-0.2): the first call
\* took trust from 0.5 to 0.045 (the only way to 0.045 in one call), the
\* second from 0.045 to 0.0, a smaller drop under a larger factor.
C6_Witness ==
    /\ player = "TrustMeter"
    /\ theta = Unit \div 2
    /\ delta = DELTA
    /\ calls = 2
    /\ last.observed
    /\ last.reward = -(Unit \div 5)
    /\ last.severity = DefaultSeverity
    /\ last.trust0 = 45
    /\ last.n0 = 1
    /\ last.factor = DefaultSeverity * (Cent + 2 * DELTA)
    /\ trust = 0

\* C7 -- Reward table exactness: the mapping gives +1.0 for (C,C), +0.5 for
\* (D,C), -0.2 for (D,D) and -1.0 for (C,D), own move first, in every state
\* and from every caller (it reads nothing but the pair).
C7_RewardTable ==
    (Mapped(last) /\ ValidPair(last)) =>
        /\ last.raised = NoError
        /\ last.my = "C" /\ last.opp = "C" => 10 * last.reward = 10 * Unit
        /\ last.my = "D" /\ last.opp = "C" => 10 * last.reward = 5 * Unit
        /\ last.my = "D" /\ last.opp = "D" => 10 * last.reward = -2 * Unit
        /\ last.my = "C" /\ last.opp = "D" => 10 * last.reward = -10 * Unit

\* A player's strategy() that mapped (own D, opponent C) to +0.5.
C7_Witness ==
    /\ last.op = "strategy"
    /\ last.my = "D"
    /\ last.opp = "C"
    /\ last.reward = Unit \div 2
    /\ last.observed

\* C8 -- Invalid move pair: for a pair outside {C,D} x {C,D} the mapping raises
\* ValueError; inside observe_moves or a player's strategy() the error reaches
\* the caller with trust and the betrayal count unchanged and no move
\* returned.
C8_InvalidPair ==
    (Mapped(last) /\ ~ValidPair(last)) =>
        /\ last.raised = MoveError
        /\ ~last.observed
        /\ trust = last.trust0
        /\ betrayals = last.n0
        /\ last.decision = None

\* A player's strategy() that met an invalid opponent move after its meter
\* had moved.
C8_Witness ==
    /\ last.op = "strategy"
    /\ last.opp = "X"
    /\ last.raised = MoveError
    /\ trust # theta
    /\ pending = None

\* C9 -- Reward range: for every valid pair the reward lies in (-1, 1].
C9_RewardRange ==
    (Mapped(last) /\ ValidPair(last)) =>
        (-Unit < last.reward /\ last.reward <= Unit)

\* C10 -- Gating rule (UTMTFT and UTMWSLS): the move returned by strategy() is
\* D when the trust read after the round's update is strictly below the
\* threshold, and is otherwise (trust >= threshold) the inner engine's
\* proposal; nothing but the current trust and the threshold decides.
C10_Gating ==
    (player \in {"UTMTFT", "UTMWSLS"} /\ last.op = "strategy"
        /\ last.raised = NoError) =>
        /\ last.proposed \in Moves
        /\ trust < threshold => last.decision = "D"
        /\ trust >= threshold => last.decision = last.proposed

\* A round that found trust below the threshold before its update and at or
\* above it afterwards, and returned the engine's C: no latch.
C10_Witness ==
    /\ player \in {"UTMTFT", "UTMWSLS"}
    /\ last.op = "strategy"
    /\ last.trust0 < threshold
    /\ trust >= threshold
    /\ last.proposed = "C"
    /\ last.decision = "C"

\* ------------------------------------------------------------------- C11
\* C11: a strategy() call made with an empty history raises nothing and
\* updates nothing: trust is still theta and the betrayal count still 0. When
\* theta >= threshold the move returned is the inner engine's proposal, and a
\* UTMTFT built with its defaults returns C.
FirstRound == player # "TrustMeter" /\ last.op = "strategy" /\ rounds = 0

C11_FirstRound ==
    FirstRound =>
        /\ last.raised = NoError
        /\ ~last.observed
        /\ trust = theta /\ trust = last.trust0
        /\ betrayals = 0 /\ last.n0 = 0
        /\ theta >= threshold => last.decision = last.proposed
        /\ DefaultUTMTFT => last.decision = "C"

C11_Witness ==
    FirstRound /\ DefaultUTMTFT /\ pending = "C" /\ trust = 450

\* ------------------------------------------------------------------- C12
\* The last k outcomes observed in this match are all (own C, opponent D).
BetrayedRun(k) ==
    /\ Len(seen) >= k
    /\ \A i \in (Len(seen) - k + 1)..Len(seen) : seen[i] = <<"C", "D">>

\* C12: with theta 0.45, alpha_pos 0.05, alpha_neg 0.5, delta 0.6 and
\* threshold 0.45, the strategy() call that observes the third of three
\* consecutive (C, D) outcomes leaves trust below 0.45 and returns D, whatever
\* the inner engine proposed.
C12_Override ==
    (DefaultUTMTFT /\ last.op = "strategy" /\ last.observed /\ BetrayedRun(3))
        => trust < 450 /\ last.decision = "D"

C12_Witness ==
    /\ DefaultUTMTFT /\ last.op = "strategy" /\ last.observed
    /\ seen = <<<<"C", "D">>, <<"C", "D">>, <<"C", "D">>>>
    /\ betrayals = 3
    /\ last.proposed = "C" /\ last.decision = "D"

\* ------------------------------------------------------------------- C13
\* Three consecutive (C, D) outcomes have been observed in this match.
EverBetrayedRun ==
    \E j \in 3..Len(seen) :
        \A i \in (j - 2)..j : seen[i] = <<"C", "D">>

AfterBetrayedRun ==
    /\ DefaultUTMTFT
    /\ last.op = "strategy" /\ last.raised = NoError
    /\ EverBetrayedRun

\* C13 as stated: with the override scenario's parameters, once three
\* consecutive (C, D) outcomes have been observed, every later strategy() call
\* of the match returns D, whatever the inner engine proposes and whatever
\* outcomes follow.
C13_Original == AfterBetrayedRun => last.decision = "D"

\* C13, amended: after such a run strategy() returns D exactly when the trust
\* it reads after the round's update is below the threshold or the inner
\* engine proposes D itself, and every round that observes a defection of the
\* opponent leaves trust below the threshold and returns D; cooperative
\* outcomes raise trust again, and from 0.45 on the proposal is returned.
C13_Persistence ==
    AfterBetrayedRun =>
        /\ last.decision = "D" <=> (trust < threshold \/ last.proposed = "D")
        /\ (last.observed /\ last.opp = "D")
               => (trust < threshold /\ last.decision = "D")

C13_Witness ==
    /\ AfterBetrayedRun
    /\ trust >= threshold
    /\ last.proposed = "C" /\ last.decision = "C"

\* ------------------------------------------------------------------- C14
Hybrid == player = "UTMTFT_WSLS"

IsReset == IsCall /\ last'.op = "reset"

\* C14: within a match the hybrid's inner engine changes at most once, from
\* TitForTat to WinStayLoseShift: it changes in a strategy() call whose trust
\* after the update is above promote_at, every such call leaves it promoted,
\* the promoted engine makes that call's proposal, and only reset() brings
\* TitForTat back, however low trust falls afterwards.
C14_OneWayPromotion ==
    [][Hybrid =>
        /\ (inner = "WinStayLoseShift" /\ ~IsReset)
               => inner' = "WinStayLoseShift"
        /\ (inner' # inner /\ ~IsReset)
               => /\ inner = "TitForTat" /\ inner' = "WinStayLoseShift"
                  /\ IsCall /\ last'.op = "strategy"
                  /\ trust' > promote_at
        /\ (IsCall /\ last'.op = "strategy" /\ last'.raised = NoError)
               => /\ trust' > promote_at => inner' = "WinStayLoseShift"
                  /\ last'.engine = inner'
                  /\ last'.proposed \in InnerStrategy(inner', rounds)
    ]_vars

C14_Witness ==
    /\ Hybrid /\ last.op = "strategy" /\ last.raised = NoError
    /\ last.inner0 = "WinStayLoseShift" /\ inner = "WinStayLoseShift"
    /\ trust < threshold /\ trust < promote_at

\* ------------------------------------------------------------------- C15
\* A UTMTFT_WSLS built with its default parameters (theta 0.45, alpha_pos
\* 0.05, alpha_neg 0.5, delta 0.55, threshold 0.45, promote_at 0.55).
DefaultHybrid ==
    /\ Hybrid
    /\ <<theta, alpha_pos, alpha_neg, delta>> = <<450, 5, 50, 55>>
    /\ threshold = 450 /\ promote_at = 550

\* Every outcome observed so far in this match is (C, C).
OnlyCooperation == \A i \in 1..Len(seen) : seen[i] = <<"C", "C">>

CooperativeRun ==
    /\ DefaultHybrid
    /\ last.op = "strategy" /\ last.observed
    /\ OnlyCooperation

\* C15: a default hybrid that has observed nothing but (C, C) since it was
\* built or reset reaches trust above promote_at: the strategy() call that
\* observes the fourth such outcome reads trust > 0.55 and replaces TitForTat
\* by WinStayLoseShift, which stays for the rest of the run; before that call
\* trust is at most 0.55 and the engine is TitForTat.
C15_PromotionReached ==
    CooperativeRun =>
        /\ Len(seen) < 4 => (trust <= promote_at /\ inner = "TitForTat")
        /\ Len(seen) = 4
              => (last.inner0 = "TitForTat" /\ last.trust0 <= promote_at)
        /\ Len(seen) >= 4 => (trust > promote_at /\ inner = "WinStayLoseShift")
        /\ trust > last.trust0

C15_Witness ==
    /\ CooperativeRun
    /\ Len(seen) = 4
    /\ last.inner0 = "TitForTat" /\ inner = "WinStayLoseShift"
    /\ last.engine = "WinStayLoseShift"
    /\ trust > promote_at

\* ------------------------------------------------------------------- C16
\* C16: the hybrid's override comes before its inner engine, promoted or not:
\* a strategy() call whose trust after the update is below the threshold
\* returns D whichever engine proposed and whatever it proposed.
C16_OverridePrecedence ==
    (Hybrid /\ last.op = "strategy" /\ last.raised = NoError
        /\ trust < threshold) =>
        /\ last.engine \in {"TitForTat", "WinStayLoseShift"}
        /\ last.decision = "D" /\ pending \in {"D", None}

C16_Witness ==
    /\ Hybrid /\ last.op = "strategy" /\ last.raised = NoError
    /\ trust < threshold
    /\ last.engine = "WinStayLoseShift"
    /\ last.proposed = "C" /\ last.decision = "D"

\* ------------------------------------------------------------------- C17
\* C17: whatever state the hybrid is in, reset() leaves it with a TitForTat
\* engine, trust = theta, no betrayals and an empty history, the state in
\* which the promotion test can fire again.
C17_HybridReset ==
    (Hybrid /\ last.op = "reset") =>
        /\ inner = "TitForTat"
        /\ trust = theta
        /\ betrayals = 0
        /\ rounds = 0 /\ seen = <<>>
        /\ Promote(promote_at + 1, inner) = "WinStayLoseShift"

\* A reset of a promoted hybrid with lowered trust and a betrayal on record.
C17_Witness ==
    /\ Hybrid /\ last.op = "reset"
    /\ last.inner0 = "WinStayLoseShift"
    /\ last.trust0 < theta /\ last.n0 > 0
    /\ inner = "TitForTat" /\ trust = theta /\ betrayals = 0

\* ------------------------------------------------------------------- C18
\* What a newly built instance with the same parameters holds once its
\* strategy() has observed the outcomes h, in order: the meter and the engine.
RECURSIVE FreshAfter(_)
FreshAfter(h) ==
    IF h = <<>>
    THEN [trust |-> theta, betrayals |-> 0,
          inner |-> IF Hybrid THEN Promote(theta, FirstEngine(player))
                    ELSE FirstEngine(player)]
    ELSE LET before == FreshAfter(SubSeq(h, 1, Len(h) - 1))
             outcome == h[Len(h)]
             r == payoff_to_signed_reward(outcome[1], outcome[2])
             u == UpdateOf(before.trust, before.betrayals, r.value,
                           DefaultSeverity)
         IN  [trust |-> u.trust, betrayals |-> u.betrayals,
              inner |-> IF Hybrid THEN Promote(u.trust, before.inner)
                        ELSE before.inner]

\* C18: nothing of an earlier match survives reset(). Right after reset() the
\* player holds exactly what a newly built one holds, and at every later call
\* its trust, betrayal count, engine and returned move are those of a newly
\* built player that has observed this match's outcomes only.
C18_NoContamination ==
    player # "TrustMeter" =>
        /\ last.op \in {"init", "reset"} =>
               <<trust, betrayals, inner, rounds, my_last, opp_last, pending,
                 seen>>
                 = <<theta, 0, FirstEngine(player), 0, None, None, None, <<>> >>
        /\ last.op = "strategy" =>
               LET fresh == FreshAfter(seen)
               IN  /\ <<trust, betrayals, inner>>
                        = <<fresh.trust, fresh.betrayals, fresh.inner>>
                   /\ Len(seen) <= rounds
                   /\ last.raised = NoError =>
                          last.decision = IF fresh.trust < threshold THEN "D"
                                          ELSE last.proposed

\* A reset after a match that lowered trust and counted two betrayals or more.
C18_Witness ==
    /\ player \in {"UTMTFT", "UTMWSLS"}
    /\ last.op = "reset"
    /\ last.trust0 < theta /\ last.n0 >= 2
    /\ trust = theta /\ betrayals = 0 /\ rounds = 0

\* ------------------------------------------------------------------- C19
\* C19: two players built independently share nothing: each holds a meter of
\* its own, and however the rounds of their two matches interleave, each
\* player's trust, betrayal count, engine and returned moves are those of a
\* player that ran its match alone.
C19_Isolation ==
    /\ instances[1].meter # instances[2].meter
    /\ \A i \in {1, 2} :
          LET p == instances[i]
              k == Len(p.history)
              alone == FreshAfter(SubSeq(p.history, 1, k - 1))
          IN  IF k = 0
              THEN /\ meters[p.meter] = [trust |-> theta, betrayals |-> 0]
                   /\ p.inner = FirstEngine(player)
              ELSE /\ meters[p.meter] = [trust |-> alone.trust,
                                         betrayals |-> alone.betrayals]
                   /\ p.inner = alone.inner
                   /\ p.history[k][1] = IF alone.trust < threshold THEN "D"
                                        ELSE p.proposals[k]

\* Both matches are under way and have taken the two meters apart.
C19_Witness ==
    /\ Len(instances[1].history) >= 2
    /\ Len(instances[2].history) >= 2
    /\ meters[instances[1].meter].betrayals > 0
    /\ meters[instances[1].meter].trust < theta
    /\ meters[instances[2].meter].betrayals = 0
    /\ meters[instances[2].meter].trust > theta

\* ------------------------------------------------------------------- C20
\* What player i was fed in round j: the inner engine's proposal and the
\* opponent's move.
Fed(i, j) == <<instances[i].proposals[j], instances[i].history[j][2]>>

SameFeed(k) == \A j \in 1..k : Fed(1, j) = Fed(2, j)

Observed ==
    last.op \in {"observe", "observe_moves", "strategy"} /\ last.observed

\* C21: an observe of a non-zero reward sets trust to
\* clamp(trust + alpha * severity * (1 + n' * delta) * (reward - trust), 0, 1),
\* with alpha = alpha_pos when reward > trust and alpha_neg otherwise, and n'
\* the betrayal count after this call's own increment.
C21_UpdateRule ==
    Observed =>
        LET a == IF last.reward > last.trust0 THEN alpha_pos ELSE alpha_neg
            n == IF last.reward < last.trust0 THEN last.n0 + 1 ELSE last.n0
            f == last.severity * (Cent + n * delta)
            sum == last.trust0 + MulDivRound(a * f, last.reward - last.trust0,
                                             Cent)
        IN  /\ last.reward # 0
            /\ betrayals = n
            /\ last.alpha = a
            /\ last.factor = f
            /\ trust = IF sum < 0 THEN 0 ELSE IF sum > Unit THEN Unit ELSE sum

\* The first betrayal of a new meter, amplified by 1 + delta and not clamped.
C21_Witness ==
    /\ Observed
    /\ last.n0 = 0 /\ betrayals = 1 /\ calls = 1
    /\ delta > 0
    /\ last.factor = last.severity * (Cent + delta)
    /\ 0 < trust /\ trust < last.trust0

\* ------------------------------------------------------------------- C22
\* C22: an observe whose non-zero reward equals the trust held exactly takes
\* the alpha_neg branch, does not count a betrayal and leaves trust as it was.
C22_EqualityEdge ==
    (Observed /\ last.reward = last.trust0) =>
        /\ last.reward # 0
        /\ last.alpha = alpha_neg
        /\ betrayals = last.n0
        /\ trust = last.trust0

\* observe(1.0) on a meter whose trust is 1.0, with alpha_neg # alpha_pos.
C22_Witness ==
    /\ Observed
    /\ last.reward = Unit /\ last.trust0 = Unit
    /\ alpha_neg # alpha_pos
    /\ last.alpha = alpha_neg
    /\ trust = Unit /\ betrayals = last.n0

\* ------------------------------------------------------------------- C23
\* severity * (1 + n * delta): the factor an observe of severity `severity`
\* uses when it leaves the betrayal count at n.
Amplification(severity, n) == severity * (Cent + n * delta)

Severities == {Cent \div 2, Cent, 2 * Cent}

\* C23: for a fixed severity > 0 (and delta >= 0) the amplification factor
\* never falls except by reset(); every observe, of a positive surprise as of
\* a negative one, uses the factor of the count it leaves; a betrayal makes it
\* strictly larger when delta > 0; and of two observes in a row with the same
\* severity the later never uses the smaller factor.
C23_AmplificationGrows ==
    [][\A severity \in Severities :
          /\ delta >= 0
          /\ Amplification(severity, betrayals')
                < Amplification(severity, betrayals) => IsReset
          /\ (IsCall /\ last'.observed) =>
                /\ last'.factor = Amplification(last'.severity, betrayals')
                /\ (betrayals' > betrayals /\ delta > 0)
                      => Amplification(severity, betrayals')
                            > Amplification(severity, betrayals)
                /\ (last.observed /\ last.severity = last'.severity)
                      => last'.factor >= last.factor
    ]_vars

\* A positive surprise after two betrayals, amplified by 1 + 2 * delta.
C23_Witness ==
    /\ Observed
    /\ last.reward > last.trust0 /\ trust > last.trust0
    /\ last.n0 = 2 /\ betrayals = 2
    /\ delta > 0 /\ last.severity > 0
    /\ last.factor = last.severity * (Cent + 2 * delta)

ObserveBoth(t, n, r1, r2) ==
    LET first == UpdateOf(t, n, r1, DefaultSeverity)
        second == UpdateOf(first.trust, first.betrayals, r2, DefaultSeverity)
    IN  <<second.trust, second.betrayals>>

NewMeterState ==
    /\ player = "TrustMeter"
    /\ alpha_pos > 0 /\ alpha_neg > 0
    /\ last.op \in {"init", "reset"}

\* C25: observe does not commute. On a new or reset meter with positive
\* learning rates, observe(1.0) then observe(-1.0) leaves another trust than
\* observe(-1.0) then observe(1.0).
C25_OrderSensitive ==
    NewMeterState =>
        ObserveBoth(trust, betrayals, Unit, -Unit)
            # ObserveBoth(trust, betrayals, -Unit, Unit)

\* observe(1.0) then observe(-1.0) carried out on a new meter, ending
\* elsewhere than the other order would.
C25_Witness ==
    /\ player = "TrustMeter" /\ alpha_pos > 0 /\ alpha_neg > 0
    /\ calls = 2
    /\ last.op = "observe" /\ last.observed
    /\ last.reward = -Unit /\ last.severity = DefaultSeverity
    /\ last.trust0 = UpdateOf(theta, 0, Unit, DefaultSeverity).trust
    /\ last.n0 = 0
    /\ <<trust, betrayals>> = ObserveBoth(theta, 0, Unit, -Unit)
    /\ <<trust, betrayals>> # ObserveBoth(theta, 0, -Unit, Unit)

\* ------------------------------------------------------------------- C26
\* C26, as the module docstring of utm_tft_wsls.py has it: the hybrid is on
\* WinStayLoseShift once trust is at least promote_at, so a strategy() call
\* whose trust after the update equals promote_at has promoted.
C26_PromotionAtBoundary ==
    (Hybrid /\ last.op = "strategy" /\ last.raised = NoError
        /\ trust >= promote_at) => inner = "WinStayLoseShift"

\* ------------------------------------------------------------------- C27
\* C27: the reward of a valid pair of moves is never zero, so a strategy()
\* call of UTMTFT, UTMWSLS or UTMTFT_WSLS whose history is empty or ends in a
\* pair of moves from {C, D} raises neither error and returns C or D.
C27_NoFailure ==
    /\ \A my_move \in Moves, opp_move \in Moves :
          /\ payoff_to_signed_reward(my_move, opp_move).raised = NoError
          /\ payoff_to_signed_reward(my_move, opp_move).value # 0
    /\ (player \in {"UTMTFT", "UTMWSLS", "UTMTFT_WSLS"}
           /\ last.op = "strategy"
           /\ (last.my = None \/ ValidPair(last))) =>
          /\ last.raised = NoError
          /\ last.decision \in Moves
          /\ last.my # None => last.observed

\* A promoted hybrid that observed (D, D), the reward nearest to zero.
C27_Witness ==
    /\ Hybrid /\ last.op = "strategy"
    /\ last.inner0 = "WinStayLoseShift"
    /\ last.my = "D" /\ last.opp = "D"
    /\ last.observed /\ last.reward = -(Unit \div 5)
    /\ last.raised = NoError /\ last.decision \in Moves

\* ------------------------------------------------------------------- C28
\* C28: an observe of an outcome in which the opponent defected, (C, D) or
\* (D, D), has a negative reward, counts one betrayal and does not raise
\* trust; a player whose trust was below the threshold before such a round
\* is below it afterwards and returns D.
C28_DefectionIsBetrayal ==
    [][(IsCall /\ last'.observed /\ Mapped(last') /\ last'.opp = "D") =>
          /\ last'.reward < 0
          /\ betrayals' = betrayals + 1
          /\ trust' <= trust
          /\ (last'.op = "strategy" /\ trust < threshold) =>
                (trust' < threshold /\ last'.decision = "D")
    ]_vars

\* A player already overriding, with trust left to lose, observes (D, D).
C28_Witness ==
    /\ last.op = "strategy" /\ last.observed
    /\ last.my = "D" /\ last.opp = "D"
    /\ 0 < last.trust0 /\ last.trust0 < threshold
    /\ trust < last.trust0
    /\ betrayals = last.n0 + 1
    /\ last.proposed = "C" /\ last.decision = "D"

====
